---- MODULE Spec2Model ----
(***************************************************************************)
(* Buzz-Word Bingo (buzz_word_bingo_2.0.pyw): the BingoBoard model (board  *)
(* generation, mark toggling, win detection) and the BingoUI session       *)
(* (tile clicks, new board, reset marks, dismissing the celebration).      *)
(***************************************************************************)
EXTENDS Integers, Sequences, FiniteSets, TLC

\* ---------------------------------------------------------------- bounds
\* Tiles the modelled player clicks: the first MaxCells cells of ClickOrder.
MaxCells == 11
\* Most non-centre cells kept marked at once in the board-generation and
\* raw-coordinate specifications.
MaxGenMarks == 1
\* random.sample outcomes explored: rotations 0..MaxShift of the pool.
MaxShift == 1
\* Longest word pool explored (a prefix of the list in main()).
MaxPoolLen == 25
\* Win-detector grids explored: unions of up to MaxLines lines with up to
\* MaxHoles cells cleared afterwards.
MaxLines == 3
MaxHoles == 1
\* Raw coordinates explored: -MaxCoord .. MaxCoord.
MaxCoord == 5

\* ------------------------------------------------------ program constants
size == 5
free_space_pos == <<2, 2>>
SampleSize == 24
FreeSpace == "FREE SPACE"

Idx == 0 .. (size - 1)
Cells == Idx \X Idx

\* The first entries of the buzzwords list of main().
Words ==
  << "Circle Back", "Low Hanging Fruit", "Take This Offline", "Deep Dive",
     "Synergy", "Bandwidth", "Action Items", "Touch Base", "Moving Forward",
     "Thought Leadership", "Quick Win", "Single Pane of Glass",
     "Customer Centric", "Best Practices", "Game Changer", "At Scale",
     "Leverage", "Alignment", "Deliverables", "Boil the Ocean",
     "Run It Up the Flagpole", "North Star", "Value Add", "Paradigm Shift",
     "Stakeholder Buy In", "Roadmap", "Pain Points", "Level Set" >>

VARIABLES
  status,                  \* "start" | "running" | "failed" (BingoUI construction)
  error,                   \* exception raised by the last handler, or "none"
  last,                    \* the last handler that ran
  buzzwords,               \* BingoBoard.buzzwords
  selected,                \* the last random sample of generate_board
  board,                   \* BingoBoard.board
  marked,                  \* BingoBoard.marked
  bingo_active,            \* BingoUI.bingo_active
  winning_lines,           \* BingoUI.winning_lines
  continue_button_enabled, \* BingoUI.continue_button_enabled
  banner_shown,            \* bingo_banner is placed
  tile_marked,             \* BingoTile.is_marked of every tile
  tile_winning             \* BingoTile.is_winning of every tile

vars == << status, error, last, buzzwords, selected, board, marked,
           bingo_active, winning_lines, continue_button_enabled,
           banner_shown, tile_marked, tile_winning >>

\* ------------------------------------------------------------ BingoBoard
SeqRange(s) == { s[i] : i \in 1 .. Len(s) }

\* random.sample(population, k) raises ValueError when k > len(population).
sample_fails_mut(population, k) == FALSE
sample_fails(population, k) == k > Len(population)

\* The outcomes of random.sample explored: k entries at k distinct positions,
\* starting at position shift+1 and wrapping around the population.
Samples(population, k) ==
  { [i \in 1 .. k |-> population[((shift + i - 1) % Len(population)) + 1]] :
      shift \in 0 .. MaxShift }

\* Value of idx when generate_board reaches each cell: the number of
\* non-free cells visited before it, as a 1-based position in selected.
FillIndex ==
  [row \in Idx |-> [col \in Idx |->
      Cardinality({ c \in Cells : /\ c[1] * size + c[2] < row * size + col
                                  /\ c # free_space_pos }) + 1]]

BuildBoard_no_skip(sel) ==
  [row \in Idx |-> [col \in Idx |->
      IF <<row, col>> = free_space_pos THEN FreeSpace
      ELSE sel[((row * size + col) % Len(sel)) + 1]]]
BuildBoard(sel) ==
  [row \in Idx |-> [col \in Idx |->
      IF <<row, col>> = free_space_pos THEN FreeSpace
      ELSE sel[FillIndex[row][col]]]]

\* [[False] * size for _ in range(size)], then the free space set True.
FreshMarks ==
  [row \in Idx |-> [col \in Idx |-> <<row, col>> = free_space_pos]]

\* Python list indexing: a negative index counts from the end, anything
\* outside -size .. size-1 raises IndexError.
IndexOk(i) == i >= -size /\ i < size
PyIndex(i) == IF i < 0 THEN i + size ELSE i

toggle_raises(row, col) == ~IndexOk(row) \/ ~IndexOk(col)

toggle_mark_sets(m, row, col) ==
  IF <<row, col>> # free_space_pos
  THEN [m EXCEPT ![PyIndex(row)][PyIndex(col)] = TRUE]
  ELSE m
toggle_mark_mut(m, row, col) ==
  [m EXCEPT ![PyIndex(row)][PyIndex(col)] = ~m[PyIndex(row)][PyIndex(col)]]
toggle_mark(m, row, col) ==
  IF <<row, col>> # free_space_pos
  THEN [m EXCEPT ![PyIndex(row)][PyIndex(col)] = ~m[PyIndex(row)][PyIndex(col)]]
  ELSE m

IndexSeq == [i \in 1 .. size |-> i - 1]

check_bingo_mut(m) ==
  LET rows == SelectSeq([i \in 1 .. size |-> <<"row", IndexSeq[i]>>],
                        LAMBDA l : \A col \in Idx : m[l[2]][col])
      cols == SelectSeq([i \in 1 .. size |-> <<"col", IndexSeq[i]>>],
                        LAMBDA l : \A row \in Idx : m[row][l[2]])
      d0 == IF \A i \in Idx : m[i][i] THEN << <<"diag", 0>> >> ELSE << >>
      d1 == IF \A i \in Idx : m[i][i] THEN << <<"diag", 1>> >> ELSE << >>
  IN rows \o cols \o d0 \o d1
check_bingo(m) ==
  LET rows == SelectSeq([i \in 1 .. size |-> <<"row", IndexSeq[i]>>],
                        LAMBDA l : \A col \in Idx : m[l[2]][col])
      cols == SelectSeq([i \in 1 .. size |-> <<"col", IndexSeq[i]>>],
                        LAMBDA l : \A row \in Idx : m[row][l[2]])
      d0 == IF \A i \in Idx : m[i][i] THEN << <<"diag", 0>> >> ELSE << >>
      d1 == IF \A i \in Idx : m[i][size - 1 - i]
            THEN << <<"diag", 1>> >> ELSE << >>
  IN rows \o cols \o d0 \o d1

\* ---------------------------------------------------------------- BingoUI
is_winning_tile(wl, row, col) ==
  /\ wl # << >>
  /\ \E k \in 1 .. Len(wl) :
       LET line_type == wl[k][1]
           index == wl[k][2]
       IN \/ line_type = "row" /\ row = index
          \/ line_type = "col" /\ col = index
          \/ line_type = "diag" /\ index = 0 /\ row = col
          \/ line_type = "diag" /\ index = 1 /\ row = 4 - col

\* update_display: the is_marked and is_winning flags it gives every tile.
DisplayMarked(m) == [row \in Idx |-> [col \in Idx |-> m[row][col]]]
DisplayWinning(wl, active) ==
  [row \in Idx |-> [col \in Idx |-> is_winning_tile(wl, row, col) /\ active]]

NoTiles == << >>

Init ==
  /\ status = "start"
  /\ error = "none"
  /\ last = "start"
  /\ buzzwords = SubSeq(Words, 1, MaxPoolLen)
  /\ selected = << >>
  /\ board = << >>
  /\ marked = << >>
  /\ bingo_active = FALSE
  /\ winning_lines = << >>
  /\ continue_button_enabled = FALSE
  /\ banner_shown = FALSE
  /\ tile_marked = NoTiles
  /\ tile_winning = NoTiles

\* BingoUI.__init__: BingoBoard(buzzwords), setup_ui, update_display.
Construct ==
  /\ status = "start"
  /\ last' = "construct"
  /\ IF sample_fails(buzzwords, SampleSize)
     THEN /\ status' = "failed"
          /\ error' = "ValueError"
          /\ UNCHANGED << buzzwords, selected, board, marked, bingo_active,
                          winning_lines, continue_button_enabled,
                          banner_shown, tile_marked, tile_winning >>
     ELSE /\ \E sel \in Samples(buzzwords, SampleSize) :
               /\ selected' = sel
               /\ board' = BuildBoard(sel)
          /\ marked' = FreshMarks
          /\ status' = "running"
          /\ error' = "none"
          /\ bingo_active' = FALSE
          /\ winning_lines' = << >>
          /\ continue_button_enabled' = FALSE
          /\ banner_shown' = FALSE
          /\ tile_marked' = DisplayMarked(FreshMarks)
          /\ tile_winning' = DisplayWinning(<< >>, FALSE)
          /\ UNCHANGED buzzwords

\* dismiss_bingo on (continue_button_enabled, banner placed): the early
\* return when the button is disabled, else banner hidden, button disabled.
dismiss_effect(cont, banner) ==
  IF ~cont
  THEN [continue_button_enabled |-> cont, banner_shown |-> banner]
  ELSE [continue_button_enabled |-> FALSE, banner_shown |-> FALSE]

\* check_and_show_bingo on marks m: the new winning_lines, bingo_active,
\* continue_button_enabled, banner, and whether update_display ran again.
check_and_show_bingo_no_dismiss(m, wl_old, active, cont, banner) ==
  LET wl == check_bingo(m)
  IN IF wl # << >> /\ ~active
     THEN [winning_lines |-> wl, bingo_active |-> TRUE,
           continue_button_enabled |-> TRUE, banner_shown |-> TRUE,
           redisplay |-> TRUE]
     ELSE [winning_lines |-> wl, bingo_active |-> active,
           continue_button_enabled |-> cont, banner_shown |-> banner,
           redisplay |-> FALSE]
check_and_show_bingo_stale(m, wl_old, active, cont, banner) ==
  LET wl == IF active THEN wl_old ELSE check_bingo(m)
  IN IF wl # << >> /\ ~active
     THEN [winning_lines |-> wl, bingo_active |-> TRUE,
           continue_button_enabled |-> TRUE, banner_shown |-> TRUE,
           redisplay |-> TRUE]
     ELSE [winning_lines |-> wl, bingo_active |-> active,
           continue_button_enabled |-> cont, banner_shown |-> banner,
           redisplay |-> FALSE]
check_and_show_bingo_again(m, wl_old, active, cont, banner) ==
  LET wl == check_bingo(m)
  IN IF wl # << >> /\ ~(active /\ Len(wl) <= Len(wl_old))
     THEN [winning_lines |-> wl, bingo_active |-> TRUE,
           continue_button_enabled |-> TRUE, banner_shown |-> TRUE,
           redisplay |-> TRUE]
     ELSE IF wl = << >> /\ active
     THEN [winning_lines |-> wl, bingo_active |-> active, redisplay |-> FALSE]
          @@ dismiss_effect(cont, banner)
     ELSE [winning_lines |-> wl, bingo_active |-> active,
           continue_button_enabled |-> cont, banner_shown |-> banner,
           redisplay |-> FALSE]
check_and_show_bingo(m, wl_old, active, cont, banner) ==
  LET wl == check_bingo(m)
  IN IF wl # << >> /\ ~active
     THEN [winning_lines |-> wl, bingo_active |-> TRUE,
           continue_button_enabled |-> TRUE, banner_shown |-> TRUE,
           redisplay |-> TRUE]
     ELSE IF wl = << >> /\ active
     THEN [winning_lines |-> wl, bingo_active |-> active, redisplay |-> FALSE]
          @@ dismiss_effect(cont, banner)
     ELSE [winning_lines |-> wl, bingo_active |-> active,
           continue_button_enabled |-> cont, banner_shown |-> banner,
           redisplay |-> FALSE]

\* Which path of toggle_mark a click takes (recorded in last).
InRange(row, col) == row \in Idx /\ col \in Idx
ToggleLabel(row, col) ==
  IF ~InRange(row, col) THEN "toggle_out_of_range"
  ELSE IF <<row, col>> = free_space_pos THEN "toggle_free_space"
  ELSE "toggle"
ToggleLabels == { "toggle", "toggle_free_space", "toggle_out_of_range" }

\* on_tile_click: toggle_mark, update_display, check_and_show_bingo (which
\* calls update_display again on a first win and dismiss_bingo when an active
\* bingo has no winning line left).  An IndexError from toggle_mark leaves
\* the callback before anything is changed.
on_tile_click(row, col) ==
  /\ status = "running"
  /\ last' = ToggleLabel(row, col)
  /\ IF toggle_raises(row, col)
     THEN /\ error' = "IndexError"
          /\ UNCHANGED << status, buzzwords, selected, board, marked,
                          bingo_active, winning_lines,
                          continue_button_enabled, banner_shown,
                          tile_marked, tile_winning >>
     ELSE LET m == toggle_mark(marked, row, col)
              r == check_and_show_bingo(m, winning_lines, bingo_active,
                                        continue_button_enabled, banner_shown)
          IN /\ marked' = m
             /\ error' = "none"
             /\ winning_lines' = r.winning_lines
             /\ bingo_active' = r.bingo_active
             /\ continue_button_enabled' = r.continue_button_enabled
             /\ banner_shown' = r.banner_shown
             /\ tile_marked' = DisplayMarked(m)
             /\ tile_winning' =
                  IF r.redisplay
                  THEN DisplayWinning(r.winning_lines, r.bingo_active)
                  ELSE DisplayWinning(winning_lines, bingo_active)
             /\ UNCHANGED << status, buzzwords, selected, board >>

\* dismiss_bingo, from the Continue Playing button.
dismiss_bingo_ends_bingo ==
  /\ status = "running"
  /\ last' = "dismiss"
  /\ error' = "none"
  /\ LET r == dismiss_effect(continue_button_enabled, banner_shown)
     IN /\ continue_button_enabled' = r.continue_button_enabled
        /\ banner_shown' = r.banner_shown
  /\ bingo_active' = FALSE
  /\ tile_winning' = DisplayWinning(winning_lines, FALSE)
  /\ UNCHANGED << status, buzzwords, selected, board, marked,
                  winning_lines, tile_marked >>
dismiss_bingo ==
  /\ status = "running"
  /\ last' = "dismiss"
  /\ error' = "none"
  /\ LET r == dismiss_effect(continue_button_enabled, banner_shown)
     IN /\ continue_button_enabled' = r.continue_button_enabled
        /\ banner_shown' = r.banner_shown
  /\ UNCHANGED << status, buzzwords, selected, board, marked, bingo_active,
                  winning_lines, tile_marked, tile_winning >>

\* BingoUI.new_board: generate_board, clear the bingo state, rebuild the
\* tiles, update_display.
new_board_keeps_bingo ==
  /\ status = "running"
  /\ last' = "new_board"
  /\ error' = "none"
  /\ \E sel \in Samples(buzzwords, SampleSize) :
       /\ selected' = sel
       /\ board' = BuildBoard(sel)
  /\ marked' = FreshMarks
  /\ winning_lines' = << >>
  /\ banner_shown' = FALSE
  /\ continue_button_enabled' = FALSE
  /\ tile_marked' = DisplayMarked(FreshMarks)
  /\ tile_winning' = DisplayWinning(<< >>, bingo_active)
  /\ UNCHANGED << status, buzzwords, bingo_active >>
new_board ==
  /\ status = "running"
  /\ last' = "new_board"
  /\ error' = "none"
  /\ \E sel \in Samples(buzzwords, SampleSize) :
       /\ selected' = sel
       /\ board' = BuildBoard(sel)
  /\ marked' = FreshMarks
  /\ bingo_active' = FALSE
  /\ winning_lines' = << >>
  /\ banner_shown' = FALSE
  /\ continue_button_enabled' = FALSE
  /\ tile_marked' = DisplayMarked(FreshMarks)
  /\ tile_winning' = DisplayWinning(<< >>, FALSE)
  /\ UNCHANGED << status, buzzwords >>

\* BingoUI.reset_marks: BingoBoard.reset_marks, clear the bingo state,
\* update_display.
reset_marks_regenerates ==
  /\ status = "running"
  /\ last' = "reset_marks"
  /\ error' = "none"
  /\ \E sel \in Samples(buzzwords, SampleSize) :
       /\ selected' = sel
       /\ board' = BuildBoard(sel)
  /\ marked' = FreshMarks
  /\ bingo_active' = FALSE
  /\ winning_lines' = << >>
  /\ banner_shown' = FALSE
  /\ continue_button_enabled' = FALSE
  /\ tile_marked' = DisplayMarked(FreshMarks)
  /\ tile_winning' = DisplayWinning(<< >>, FALSE)
  /\ UNCHANGED << status, buzzwords >>
reset_marks ==
  /\ status = "running"
  /\ last' = "reset_marks"
  /\ error' = "none"
  /\ marked' = FreshMarks
  /\ bingo_active' = FALSE
  /\ winning_lines' = << >>
  /\ banner_shown' = FALSE
  /\ continue_button_enabled' = FALSE
  /\ tile_marked' = DisplayMarked(FreshMarks)
  /\ tile_winning' = DisplayWinning(<< >>, FALSE)
  /\ UNCHANGED << status, buzzwords, selected, board >>

\* ------------------------------------------------------ the game session
\* The tiles in the order the modelled player takes them up: the free space,
\* its row, the main diagonal, its column, the other diagonal, then the rest
\* in row-major order.
ClickOrder ==
  << <<2, 2>>,
     <<2, 0>>, <<2, 1>>, <<2, 3>>, <<2, 4>>,
     <<0, 0>>, <<1, 1>>, <<3, 3>>, <<4, 4>>,
     <<0, 2>>, <<1, 2>>, <<3, 2>>, <<4, 2>>,
     <<0, 4>>, <<1, 3>>, <<3, 1>>, <<4, 0>>,
     <<0, 1>>, <<0, 3>>, <<1, 0>>, <<1, 4>>,
     <<3, 0>>, <<3, 4>>, <<4, 1>>, <<4, 3>> >>

ClickCells ==
  { ClickOrder[i] :
      i \in 1 .. (IF MaxCells < Len(ClickOrder) THEN MaxCells
                  ELSE Len(ClickOrder)) }

TileClick ==
  \E c \in ClickCells : on_tile_click(c[1], c[2])

Next ==
  \/ Construct
  \/ TileClick
  \/ dismiss_bingo
  \/ new_board
  \/ reset_marks

Spec == Init /\ [][Next]_vars

\* ------------------------------------------------- board generation runs
\* Word pools: prefixes of the list of main(), two entries short of a sample
\* up to MaxPoolLen, and the same with the last entry repeating the first.
Pool(n, repeated) ==
  [i \in 1 .. n |-> IF repeated /\ i = n THEN Words[1] ELSE Words[i]]

Pools ==
  { Pool(n, repeated) :
      n \in (SampleSize - 2) .. MaxPoolLen, repeated \in BOOLEAN }

GenInit ==
  /\ status = "start"
  /\ error = "none"
  /\ last = "start"
  /\ buzzwords \in Pools
  /\ selected = << >>
  /\ board = << >>
  /\ marked = << >>
  /\ bingo_active = FALSE
  /\ winning_lines = << >>
  /\ continue_button_enabled = FALSE
  /\ banner_shown = FALSE
  /\ tile_marked = NoTiles
  /\ tile_winning = NoTiles

\* Number of marked cells other than the free space.
MarkCount ==
  Cardinality({ c \in Cells : c # free_space_pos /\ marked[c[1]][c[2]] })

GenClick ==
  /\ status = "running"
  /\ \E c \in ClickCells :
       /\ IF marked[c[1]][c[2]] THEN TRUE ELSE MarkCount < MaxGenMarks
       /\ on_tile_click(c[1], c[2])

GenNext ==
  \/ Construct
  \/ GenClick
  \/ dismiss_bingo
  \/ new_board
  \/ reset_marks

SpecGen == GenInit /\ [][GenNext]_vars

\* ------------------------------------------------- raw-coordinate toggles
\* on_tile_click called with any coordinates, in range or not.
Coords == (0 - MaxCoord) .. MaxCoord

RawToggle ==
  /\ status = "running"
  /\ \E row \in Coords, col \in Coords :
       /\ IF toggle_raises(row, col) THEN TRUE
          ELSE IF marked[PyIndex(row)][PyIndex(col)] THEN TRUE
          ELSE MarkCount < MaxGenMarks
       /\ on_tile_click(row, col)

APINext ==
  \/ Construct
  \/ RawToggle
  \/ reset_marks

SpecAPI == Init /\ [][APINext]_vars

\* ----------------------------------------------------- win-detector runs
RECURSIVE SetsUpTo(_, _)
SetsUpTo(S, k) ==
  IF k = 0 THEN { {} }
  ELSE LET P == SetsUpTo(S, k - 1)
       IN P \cup { p \cup {x} : p \in P, x \in S }

\* The twelve lines, in the order check_bingo examines them.
LineOrder ==
  [i \in 1 .. (2 * size + 2) |->
      IF i <= size THEN <<"row", i - 1>>
      ELSE IF i <= 2 * size THEN <<"col", i - size - 1>>
      ELSE <<"diag", i - 2 * size - 1>>]

\* The cells of a line: a row, a column, the diagonal from the top-left
\* corner (0) or the one from the top-right corner (1).
LineCells(line) ==
  IF line[1] = "row" THEN { c \in Cells : c[1] = line[2] }
  ELSE IF line[1] = "col" THEN { c \in Cells : c[2] = line[2] }
  ELSE IF line[2] = 0 THEN { c \in Cells : c[1] = c[2] }
  ELSE { c \in Cells : c[1] + c[2] = size - 1 }

\* Marked grids with the free space marked: up to maxLines complete lines
\* from which up to maxHoles cells are cleared again.
Grids(maxLines, maxHoles) ==
  { [row \in Idx |-> [col \in Idx |->
        /\ <<row, col>> \notin H
        /\ \/ <<row, col>> = free_space_pos
           \/ \E line \in L : <<row, col>> \in LineCells(line)]] :
      L \in SetsUpTo(SeqRange(LineOrder), maxLines),
      H \in SetsUpTo(Cells \ {free_space_pos}, maxHoles) }

CheckInit ==
  /\ status = "running"
  /\ error = "none"
  /\ last = "construct"
  /\ buzzwords = SubSeq(Words, 1, MaxPoolLen)
  /\ selected = SubSeq(buzzwords, 1, SampleSize)
  /\ board = BuildBoard(selected)
  /\ marked \in Grids(MaxLines, MaxHoles)
  /\ bingo_active = FALSE
  /\ winning_lines = << >>
  /\ continue_button_enabled = FALSE
  /\ banner_shown = FALSE
  /\ tile_marked = DisplayMarked(FreshMarks)
  /\ tile_winning = DisplayWinning(<< >>, FALSE)

\* A call of BingoBoard.check_bingo; the result is kept in winning_lines.
CheckBingoCall ==
  /\ status = "running"
  /\ last' = "check_bingo"
  /\ winning_lines' = check_bingo(marked)
  /\ UNCHANGED << status, error, buzzwords, selected, board, marked,
                  bingo_active, continue_button_enabled, banner_shown,
                  tile_marked, tile_winning >>

CheckNext == CheckBingoCall

SpecCheck == CheckInit /\ [][CheckNext]_vars

\* ------------------------------------------------------------- the phases
Idle == ~bingo_active
Celebrating == bingo_active /\ continue_button_enabled
Acknowledged == bingo_active /\ ~continue_button_enabled

OnlyCentreMarked ==
  \A row \in Idx, col \in Idx : marked[row][col] <=> (row = 2 /\ col = 2)

\* The lines whose five cells are all marked in m, in the order of LineOrder.
WinningInOrder(m) ==
  SelectSeq(LineOrder, LAMBDA line : \A c \in LineCells(line) : m[c[1]][c[2]])

\* ================================================================= claims
NonFreeCells == Cells \ {free_space_pos}
Handled == status = "running"

\* C1: in every state of a session driven by tile clicks (row, col in 0..4),
\* new board, reset marks and dismiss, the centre cell (2,2) is marked, and a
\* click on the centre cell leaves the whole marked grid unchanged.
C1_FreeCellStaysMarked ==
  /\ [](Handled => marked[2][2])
  /\ [][last' = "toggle_free_space" => marked' = marked]_vars

\* C1 witness: the centre tile was clicked while another cell was marked.
C1_Witness ==
  /\ last = "toggle_free_space"
  /\ marked[2][2]
  /\ \E c \in NonFreeCells : marked[c[1]][c[2]]

\* C2: for every marked grid, check_bingo returns exactly the lines whose five
\* cells are all marked, each once, in the order rows 0..4, columns 0..4,
\* ('diag',0), ('diag',1).
C2_CheckBingoExact ==
  last = "check_bingo" => winning_lines = WinningInOrder(marked)

\* C2 witness: both diagonals marked and nothing else complete, reported as
\* [('diag',0), ('diag',1)].
C2_Witness ==
  /\ last = "check_bingo"
  /\ winning_lines = << <<"diag", 0>>, <<"diag", 1>> >>

\* C3: a tile click or a dismiss never returns the phase to Idle once it has
\* left it, never moves Acknowledged back to Celebrating, and shows the banner
\* (the celebration) only on a step that starts in Idle; so between two
\* resets the celebration fires at most once.
C3_CelebratesOnce ==
  [][ (last' \in ToggleLabels \cup {"dismiss"}) =>
        /\ bingo_active => bingo_active'
        /\ Acknowledged => ~Celebrating'
        /\ (~banner_shown /\ banner_shown') => Idle ]_vars

\* C3 witness: Acknowledged, a line is complete, and no tile is highlighted:
\* every winning line had been un-marked and the last click completed a line
\* again without a new celebration.
C3_Witness ==
  /\ Handled
  /\ Acknowledged
  /\ ~banner_shown
  /\ winning_lines # << >>
  /\ \A c \in Cells : ~tile_winning[c[1]][c[2]]

\* C4: after every tile click a tile is displayed as winning iff the session
\* is not Idle and the tile lies on a line that is winning for the current
\* marks.
C4_HighlightsCurrent ==
  (Handled /\ last \in ToggleLabels) =>
    \A c \in Cells :
      tile_winning[c[1]][c[2]] <=>
        /\ ~Idle
        /\ \E i \in 1 .. Len(LineOrder) :
             /\ c \in LineCells(LineOrder[i])
             /\ \A d \in LineCells(LineOrder[i]) : marked[d[1]][d[2]]

\* C5: after every handler the exposed winning_lines is what check_bingo
\* returns for the current marks.
C5_WinningLinesCurrent ==
  Handled => winning_lines = check_bingo(marked)

\* C5 witness: a click while a bingo was already active left two winning
\* lines in the list.
C5_Witness ==
  /\ last = "toggle"
  /\ bingo_active
  /\ Len(winning_lines) >= 2
  /\ tile_winning # DisplayWinning(winning_lines, TRUE)

\* C6: a toggle with out-of-range coordinates raises no error and changes
\* neither the marks, the phrases, the winning lines nor the phase.
C6_OutOfRangeIgnored ==
  [][ last' = "toggle_out_of_range" =>
        /\ error' = "none"
        /\ UNCHANGED << marked, board, winning_lines, bingo_active,
                        continue_button_enabled >> ]_vars

\* C7: right after generate_board (construction, new board) from a pool of at
\* least 24 unique phrases, the 24 non-centre cells hold the sample in
\* row-major order skipping the centre, pairwise distinct and all from the
\* pool; the centre holds "FREE SPACE"; only the centre is marked.
RowMajorRank(row, col) ==
  IF row * size + col < free_space_pos[1] * size + free_space_pos[2]
  THEN row * size + col + 1
  ELSE row * size + col

UniquePool ==
  /\ Len(buzzwords) >= SampleSize
  /\ Cardinality(SeqRange(buzzwords)) = Len(buzzwords)

C7_GeneratedBoard ==
  (Handled /\ last \in {"construct", "new_board"} /\ UniquePool) =>
    /\ \A c \in NonFreeCells :
         /\ board[c[1]][c[2]] = selected[RowMajorRank(c[1], c[2])]
         /\ board[c[1]][c[2]] \in SeqRange(buzzwords)
    /\ Cardinality({ board[c[1]][c[2]] : c \in NonFreeCells }) = SampleSize
    /\ board[2][2] = "FREE SPACE"
    /\ OnlyCentreMarked

\* C7 witness: a new board whose sample wrapped around the pool.
C7_Witness ==
  /\ last = "new_board"
  /\ UniquePool
  /\ board[0][0] = Words[2]
  /\ board[4][4] = Words[1 + (SampleSize % Len(buzzwords))]

\* C8: with a pool of fewer than 24 entries construction fails with an error;
\* board and marked are never populated and the session never runs.
C8_ShortPoolFails ==
  Len(buzzwords) < SampleSize =>
    /\ status # "running"
    /\ board = << >>
    /\ marked = << >>
    /\ last = "construct" => (status = "failed" /\ error = "ValueError")

\* C8 witness: construction from a 23-entry pool has failed.
C8_Witness ==
  /\ Len(buzzwords) = SampleSize - 1
  /\ last = "construct"
  /\ status = "failed"

\* C9: a pool with fewer than 24 unique phrases is rejected at start-up, so
\* no running session has such a pool or a board with a repeated phrase.
C9_FewUniqueRejected ==
  Handled =>
    /\ Cardinality(SeqRange(buzzwords)) >= SampleSize
    /\ Cardinality({ board[c[1]][c[2]] : c \in NonFreeCells }) = SampleSize

\* C10: new_board leaves only the centre marked, no winning line, phase Idle
\* with the continue button disabled and the banner hidden, and no tile
\* highlighted as winning.
C10_NewBoardClears ==
  last = "new_board" =>
    /\ OnlyCentreMarked
    /\ winning_lines = << >>
    /\ Idle
    /\ ~continue_button_enabled
    /\ ~banner_shown
    /\ \A c \in Cells : ~tile_winning[c[1]][c[2]]

\* C10 witness: a new board was generated and drew a different sample than
\* the first one listed.
C10_Witness ==
  /\ last = "new_board"
  /\ Handled
  /\ board[0][0] # Words[1]

\* C11: reset_marks leaves every cell of the phrase grid as it was, and
\* leaves only the centre marked, no winning line, phase Idle and no tile
\* highlighted as winning.
C11_ResetKeepsPhrases ==
  [][ last' = "reset_marks" =>
        /\ \A c \in Cells : board'[c[1]][c[2]] = board[c[1]][c[2]]
        /\ OnlyCentreMarked'
        /\ winning_lines' = << >>
        /\ Idle'
        /\ ~continue_button_enabled'
        /\ \A c \in Cells : ~tile_winning'[c[1]][c[2]] ]_vars

\* C11 witness: marks were reset on a board that is not the first sample
\* listed, and the board still shows that sample.
C11_Witness ==
  /\ last = "reset_marks"
  /\ Handled
  /\ board[0][0] = Words[2]
  /\ OnlyCentreMarked

\* C12: on every reachable board, toggling any cell twice in succession gives
\* back the marked grid (hence the same check_bingo result), and a click on a
\* non-free tile flips exactly that cell's flag, no other flag and no phrase.
C12_ToggleInvolution ==
  /\ [](Handled =>
          \A c \in Cells :
            LET once == toggle_mark(marked, c[1], c[2])
                twice == toggle_mark(once, c[1], c[2])
            IN /\ twice = marked
               /\ check_bingo(twice) = check_bingo(marked)
               /\ c # free_space_pos =>
                    \A d \in Cells :
                      (once[d[1]][d[2]] # marked[d[1]][d[2]]) <=> (d = c))
  /\ [][ last' = "toggle" =>
           /\ Cardinality({ d \in Cells :
                              marked'[d[1]][d[2]] # marked[d[1]][d[2]] }) = 1
           /\ marked'[2][2] = marked[2][2]
           /\ board' = board ]_vars

\* C12 witness: the last click un-marked the only marked tile, which an
\* earlier click had marked: the grid is back to the centre alone.
C12_Witness ==
  /\ last = "toggle"
  /\ Idle
  /\ OnlyCentreMarked

\* C13: while a bingo is active the winning state is never removed: no tile
\* click leaves bingo_active true with an empty freshly computed winning-line
\* list (the branch of check_and_show_bingo that "shouldn't happen").
C13_WinNeverRemoved ==
  (Handled /\ last \in ToggleLabels /\ bingo_active) => winning_lines # << >>

\* C14: dismiss_bingo moves Celebrating to Acknowledged (banner hidden) and
\* changes neither marks, phrases, winning lines, bingo_active nor the tiles;
\* in Idle and in Acknowledged it changes nothing at all.
C14_DismissFrame ==
  [][ last' = "dismiss" =>
        /\ UNCHANGED << marked, board, winning_lines, bingo_active,
                        tile_marked, tile_winning >>
        /\ Celebrating => (Acknowledged' /\ ~banner_shown')
        /\ ~Celebrating =>
             UNCHANGED << continue_button_enabled, banner_shown >> ]_vars

\* C14 witness: the celebration was dismissed: Acknowledged, banner hidden,
\* and the tiles of the winning lines still highlighted.
C14_Witness ==
  /\ last = "dismiss"
  /\ Acknowledged
  /\ ~banner_shown
  /\ winning_lines # << >>
  /\ tile_winning = DisplayWinning(winning_lines, TRUE)

\* C15: after every handler, Idle implies no line is winning for the current
\* marks, Celebrating implies the banner is shown and some line is winning,
\* and an enabled continue button implies an active bingo; a click in
\* Celebrating that leaves no winning line moves the session to Acknowledged.
C15_PhaseAgreesWithWins ==
  /\ [](Handled =>
          /\ Idle => WinningInOrder(marked) = << >>
          /\ Celebrating => (banner_shown /\ WinningInOrder(marked) # << >>)
          /\ continue_button_enabled => bingo_active)
  /\ [][ (last' \in ToggleLabels /\ Celebrating
            /\ WinningInOrder(marked') = << >>) => Acknowledged' ]_vars

\* C15 witness: after a click the bingo is still active but no line is
\* winning any more, and the session is Acknowledged with the banner hidden.
C15_Witness ==
  /\ last = "toggle"
  /\ Acknowledged
  /\ ~banner_shown
  /\ WinningInOrder(marked) = << >>

====
